---------------------------- MODULE Spec2Model ----------------------------
(***************************************************************************)
(* Model of the ledger simulator: the driver SendTransactions, the node    *)
(* workers of SimulateBlockchain (src/tester.go) and of SimulateDAG        *)
(* (src/unnamed/part_001), the non-blocking broadcast between them and the *)
(* aggregation of the nodes' terminal views.                               *)
(*                                                                         *)
(* Conventions.  Nodes are numbered 0..N-1 as in the code.  An amount is   *)
(* counted in hundredths (1.00 is 100), so "amt += 0.01" is amt + 1.  A    *)
(* fingerprint is modelled by the content it is a digest of: sha256 is     *)
(* taken to be collision free and the nonce search deterministic, so two   *)
(* artifacts have the same fingerprint exactly when they have the same     *)
(* hashed content.  The empty string "" is the empty sequence.             *)
(***************************************************************************)
EXTENDS Integers, Sequences, FiniteSets, TLC

\* ---------------------------------------------------------------- bounds
MaxN == 3
MaxR == 2
MaxWork == 4
MaxPairs == 2
MaxSendN == 4
PScale == 1
MaxQueue == 2
MaxD == 1
MaxLiveR == 1
MaxBurstR == 2
MaxBurstWork == 8
MaxOldN == 3
MaxGoR == 1
MaxBenchR == 101

VARIABLES
    variant, N, C, R, D, p,
    dpc, round, amt, txSent, honestTxs, corruptTxs, si, st, ci,
    inboxes, inboxClosed, recvClosed, receivers, blockWG, wg, mu, panicked,
    npc, transactions, HashMap, Counts, MaxLength, MaxChain, bj, Nodes,
    winner, winnerType, transactionTracker, transactionMap, txConfirmed,
    view,
    offered, recvFrom, received, due, aggOrder

config == <<variant, N, C, R, D, p>>
driver == <<dpc, round, amt, txSent, honestTxs, corruptTxs, si, st, ci>>
chans  == <<inboxes, inboxClosed, recvClosed, receivers>>
sync   == <<blockWG, wg, mu, panicked>>
ledger == <<HashMap, Counts, MaxLength, MaxChain, Nodes>>
local  == <<npc, transactions, bj>>
agg    == <<winner, winnerType, transactionTracker, transactionMap, txConfirmed,
           view>>
ghost  == <<offered, recvFrom, received, due, aggOrder>>
vars   == <<config, driver, chans, sync, ledger, local, agg, ghost>>

NodeIds == 0 .. (N - 1)

\* ------------------------------------------------------- labels and pairs
getLabel(index, c) == IF index < c THEN "corrupt" ELSE "honest"

getNum(index, c) == IF index < c THEN index + 1 ELSE index + 1 - c

Name(index, c) == <<getLabel(index, c), getNum(index, c)>>

\* Mutant of EligiblePair: the test "l1 != l2" is lost.
EligiblePair_AnyLabel(i, j, c) == i # j

\* The ordered pairs (i, j) for which the two loops of a round reach the
\* probability test: i # j and both of the same population.
EligiblePair(i, j, c) == i # j /\ getLabel(i, c) = getLabel(j, c)

EligiblePairs(n, c) ==
    {pr \in (0 .. (n - 1)) \X (0 .. (n - 1)) : EligiblePair(pr[1], pr[2], c)}

\* The eligible pairs in the order the two loops visit them: amt is
\* incremented once for each, so the k-th (from 1) gets amount amt + k - 1.
PairSeq(n, c) ==
    SelectSeq([k \in 1 .. n * n |-> <<(k - 1) \div n, (k - 1) % n>>],
              LAMBDA pr : EligiblePair(pr[1], pr[2], c))

\* rand.Float64() returns a value in [0, 1): r / (2 * PScale) for
\* r in RandVals; p stands for p / PScale.
RandVals == 0 .. (2 * PScale - 1)

Sends(r, prob) == r <= 2 * prob

\* The outcomes "rand.Float64() <= p" can have for some draw.
SendOutcomes(prob) == {Sends(r, prob) : r \in RandVals}


\* A transaction as the driver creates it: the tangle fields are zero.
Tx(s, r, a) == [Sender |-> s, Receiver |-> r, Amount |-> a,
                Parents |-> <<>>, Hash |-> <<>>]

\* honestTxs (label "honest") or corruptTxs (label "corrupt") of one round in
\* which exactly the pairs of S passed the probability test; a0 is amt at
\* the start of the round.
RoundTxs(S, label, a0, n, c) ==
    LET ps   == PairSeq(n, c)
        idxs == SelectSeq([k \in 1 .. Len(ps) |-> k],
                          LAMBDA k : ps[k] \in S /\ getLabel(ps[k][1], c) = label)
    IN  [m \in 1 .. Len(idxs) |->
            Tx(Name(ps[idxs[m]][1], c), Name(ps[idxs[m]][2], c),
               a0 + idxs[m] - 1)]

\* The list the send loop hands to node i.
TxsFor(i, hon, cor) == IF i < C THEN cor ELSE hon

Min(S) == CHOOSE x \in S : \A y \in S : x <= y

\* The first node at or after from whose list is not empty; N when none.
FirstSend(from, hon, cor) ==
    LET cand == {i \in from .. (N - 1) : TxsFor(i, hon, cor) # <<>>}
    IN  IF cand = {} THEN N ELSE Min(cand)

\* Mutant of RoundsDone: the round loop is left after its first iteration.
RoundsDone_AfterFirst(r) == r >= 1 \/ r = R

\* "for range R" has run all its iterations.
RoundsDone(r) == r = R

LoopHead(r) == IF RoundsDone(r) THEN "close" ELSE "round"

Running == panicked = ""

\* The bound on the draws: in the runs explored the number of transactions
\* sent times the number of nodes is at most MaxWork.  With p = 1.0 every
\* draw passes and the initial condition bounds the run.
DrawAllowed(S) ==
    \/ variant \in {"send", "old"}
    \/ p = PScale
    \/ (txSent + Cardinality(S)) * N <= MaxWork

\* ------------------------------------------------------------ the driver
\* One iteration of the round loop up to its first send: the two nested
\* loops draw rand.Float64() for every eligible pair and build the lists.
DriverRound ==
    /\ Running
    /\ dpc = "round"
    /\ \E S \in SUBSET EligiblePairs(N, C) :
        /\ \A pr \in EligiblePairs(N, C) : (pr \in S) \in SendOutcomes(p)
        /\ DrawAllowed(S)
        /\ LET hon == RoundTxs(S, "honest", amt, N, C)
               cor == RoundTxs(S, "corrupt", amt, N, C)
               f   == FirstSend(0, hon, cor)
           IN  /\ txSent' = txSent + Cardinality(S)
               /\ amt' = amt + Cardinality(EligiblePairs(N, C))
               /\ due' = [i \in NodeIds |-> due[i] + Len(TxsFor(i, hon, cor))]
               /\ IF f = N
                  THEN /\ round' = round + 1
                       /\ dpc' = LoopHead(round + 1)
                       /\ honestTxs' = <<>> /\ corruptTxs' = <<>>
                       /\ si' = 0 /\ st' = 0
                  ELSE /\ round' = round
                       /\ dpc' = "send"
                       /\ honestTxs' = hon /\ corruptTxs' = cor
                       /\ si' = f /\ st' = 1
    /\ UNCHANGED <<config, ci, chans, sync, ledger, local, agg,
                   offered, recvFrom, received, aggOrder>>

\* Where the driver is once SendTransactions has returned: SimulateBlockchain
\* waits for the barrier, SimulateDAG for the workers.
AfterSend ==
    CASE variant = "chain" -> "barrier"
      [] variant = "dag"   -> "wait"
      [] OTHER             -> "returned"

\* close(inboxes[ci]); closing a closed channel panics.
DriverCloseInbox ==
    /\ Running
    /\ dpc = "close"
    /\ IF inboxClosed[ci]
       THEN /\ panicked' = "close of closed channel"
            /\ UNCHANGED <<inboxClosed, dpc, ci>>
       ELSE /\ inboxClosed' = [inboxClosed EXCEPT ![ci] = TRUE]
            /\ UNCHANGED panicked
            /\ IF ci + 1 = N
               THEN /\ ci' = 0
                    /\ dpc' = AfterSend
               ELSE /\ ci' = ci + 1
                    /\ UNCHANGED dpc
    /\ UNCHANGED <<config, round, amt, txSent, honestTxs, corruptTxs, si,
                   st, inboxes, recvClosed, receivers, blockWG, wg, mu,
                   ledger, local, agg, ghost>>

\* Mutant of BlockWGWaitDone: the driver does not wait for the barrier.
BlockWGWaitDone_NoBarrier == TRUE

\* blockWG.Wait() returns.
BlockWGWaitDone == blockWG = 0

DriverBarrier ==
    /\ Running
    /\ dpc = "barrier"
    /\ BlockWGWaitDone
    /\ dpc' = "closeRecv"
    /\ UNCHANGED <<config, round, amt, txSent, honestTxs, corruptTxs, si, st,
                   ci, chans, sync, ledger, local, agg, ghost>>

DriverCloseRecv ==
    /\ Running
    /\ dpc = "closeRecv"
    /\ IF recvClosed[ci]
       THEN /\ panicked' = "close of closed channel"
            /\ UNCHANGED <<recvClosed, dpc, ci>>
       ELSE /\ recvClosed' = [recvClosed EXCEPT ![ci] = TRUE]
            /\ UNCHANGED panicked
            /\ IF ci + 1 = N
               THEN ci' = 0 /\ dpc' = "wait"
               ELSE ci' = ci + 1 /\ UNCHANGED dpc
    /\ UNCHANGED <<config, round, amt, txSent, honestTxs, corruptTxs, si,
                   st, inboxes, inboxClosed, receivers, blockWG, wg, mu,
                   ledger, local, agg, ghost>>

\* ------------------------------------------------------------ Go maps
\* m[k] = v
Put(m, k, v) == [x \in DOMAIN m \cup {k} |-> IF x = k THEN v ELSE m[x]]

\* m[k] of a map of int: the zero value for a missing key.
GetCount(m, k) == IF k \in DOMAIN m THEN m[k] ELSE 0

ZeroBlock == [Transactions |-> <<>>, PrevHash |-> <<>>, Hash |-> <<>>]

\* m[k] of a map of Block.
GetBlock(m, k) == IF k \in DOMAIN m THEN m[k] ELSE ZeroBlock

EmptyMap == <<>>

\* ------------------------------------------------------ blocks and mining
Amounts(txs) == [k \in 1 .. Len(txs) |-> txs[k].Amount]

\* The digest of (Transactions, PrevHash, Nonce): its content.
calculateHash(txs, prev) == Append(prev, txs)

\* mineBlock searches the nonce; the block it returns carries the digest.
generateBlock(prev, txs) ==
    [Transactions |-> txs, PrevHash |-> prev, Hash |-> calculateHash(txs, prev)]

createGenesisBlock == generateBlock(<<>>, <<>>)

G == createGenesisBlock

\* ------------------------------------------------- chain node: its ledger
\* The receiver case for a block b taken from the buffer, on the node state
\* s = [HashMap, Counts, MaxLength, MaxChain].
\* Mutant of Longer: every block with a known predecessor becomes the tip.
Longer_Always(len, max) == TRUE

\* Mutant of Longer: a block as long as the best chain becomes the tip.
Longer_OrEqual(len, max) == len >= max

Longer(len, max) == len > max

RecvBlock(s, b) ==
    IF b.PrevHash \in DOMAIN s.HashMap
    THEN LET len == GetCount(s.Counts, b.PrevHash) + 1
         IN  [HashMap   |-> Put(s.HashMap, b.Hash, b),
              Counts    |-> Put(s.Counts, b.Hash, len),
              MaxLength |-> IF Longer(len, s.MaxLength) THEN len ELSE s.MaxLength,
              MaxChain  |-> IF Longer(len, s.MaxLength) THEN b.Hash ELSE s.MaxChain]
    ELSE LET g == [b EXCEPT !.PrevHash = G.Hash]
         IN  [HashMap   |-> Put(s.HashMap, g.Hash, g),
              Counts    |-> Put(s.Counts, g.Hash, 1),
              MaxLength |-> IF s.MaxChain = <<>> THEN 1 ELSE s.MaxLength,
              MaxChain  |-> IF s.MaxChain = <<>> THEN g.Hash ELSE s.MaxChain]

\* Mutant of MineBlock: the block is built on the empty previous-hash
\* whatever the best tip is.
MineBlock_OnEmpty(s, txs) ==
    LET nextBlock == generateBlock(<<>>, txs)
        len       == GetCount(s.Counts, <<>>) + 1
    IN  [HashMap   |-> Put(s.HashMap, nextBlock.Hash, nextBlock),
         Counts    |-> Put(s.Counts, nextBlock.Hash, len),
         MaxLength |-> len,
         MaxChain  |-> nextBlock.Hash]

\* The default case with queued transactions, up to the broadcast loop.
MineBlock(s, txs) ==
    LET nextBlock == generateBlock(s.MaxChain, txs)
        len       == GetCount(s.Counts, s.MaxChain) + 1
    IN  [HashMap   |-> Put(s.HashMap, nextBlock.Hash, nextBlock),
         Counts    |-> Put(s.Counts, nextBlock.Hash, len),
         MaxLength |-> len,
         MaxChain  |-> nextBlock.Hash]

ChainState(i) == [HashMap |-> HashMap[i], Counts |-> Counts[i],
                  MaxLength |-> MaxLength[i], MaxChain |-> MaxChain[i]]

Reverse(q) == [k \in 1 .. Len(q) |-> q[Len(q) + 1 - k]]

RECURSIVE WalkBack(_, _)
WalkBack(hm, tail) ==
    IF tail \notin DOMAIN hm THEN <<>>
    ELSE (IF hm[tail].Hash # <<>> THEN <<hm[tail]>> ELSE <<>>)
             \o WalkBack(hm, hm[tail].PrevHash)

buildBlockChain(hm, genesis, tail) == <<genesis>> \o Reverse(WalkBack(hm, tail))

RECURSIVE TotalTxs(_)
TotalTxs(chain) ==
    IF chain = <<>> THEN 0
    ELSE Len(Head(chain).Transactions) + TotalTxs(Tail(chain))

\* Mutant of countConfirmedTransactions: every entry counts, repeated or not.
countConfirmedTransactions_All(chain) == TotalTxs(chain)

RECURSIVE AmountSet(_)
AmountSet(chain) ==
    IF chain = <<>> THEN {}
    ELSE {Head(chain).Transactions[k].Amount :
              k \in 1 .. Len(Head(chain).Transactions)} \cup AmountSet(Tail(chain))

countConfirmedTransactions(chain) == Cardinality(AmountSet(chain))

\* --------------------------------------------------------- the broadcast
\* Mutant of Skip: only the sender itself is skipped.
Skip_SelfOnly(i, j) == i = j

\* Mutant of Skip: the partition is turned round.
Skip_Reversed(i, j) ==
    i = j \/ (getLabel(i, C) = "honest" /\ getLabel(j, C) = "corrupt")

\* The "continue" of the broadcast loop.
Skip(i, j) == i = j \/ (getLabel(i, C) = "corrupt" /\ getLabel(j, C) = "honest")

\* The next destination at or after from the loop does not skip; N when none.
NextDest(i, from) ==
    LET cand == {j \in from .. (N - 1) : ~Skip(i, j)}
    IN  IF cand = {} THEN N ELSE Min(cand)

\* make(chan Transaction, 100) of SimulateDAGBenchmark.
BenchCap == 100

\* Mutant of RecvCap: the tangle's receive channels have one slot.
RecvCap_OneSlot == IF variant = "chain" THEN N ELSE 1

\* Mutant of RecvCap: the chain buffers take one block more.
RecvCap_OneMore == IF variant = "chain" THEN N + 1 ELSE 0

\* make(chan Block, N) in the chain variant, make(chan Transaction) in the
\* tangle variant, the buffered channel in the tangle benchmark.
RecvCap ==
    CASE variant = "chain" -> N
      [] variant = "bench" -> BenchCap
      [] OTHER -> 0

\* strings.HasPrefix(hash, strings.Repeat("0", d)).  The nonce search of
\* mineBlock and mineTransaction ends only at a digest that begins with D
\* characters "0", and every digest of a run is one it ended at; the empty
\* string and the names "gen1" and "gen2", which SimulateDAG writes over the
\* fingerprints of its genesis pair, begin with none.
HasPrefix(hash, d) ==
    IF \/ hash = <<>>
       \/ variant \in {"dag", "bench"} /\ hash \in {<<"gen1">>, <<"gen2">>}
    THEN d = 0
    ELSE d <= D

\* ------------------------------------------------ tangle node: its ledger
\* computeHash digests Sender, Receiver, Amount and Parents (and the nonce).
computeHash(tx) == <<tx.Sender, tx.Receiver, tx.Amount>> \o tx.Parents

mineTransaction(tx) == [tx EXCEPT !.Hash = computeHash(tx)]

\* createGenesis drops what mineTransaction returns: the two entries keep
\* an empty Hash until SimulateDAG names them "gen1" and "gen2".
createGenesis ==
    [i \in 1 .. 2 |-> [Sender |-> <<"genesis">>, Receiver |-> <<"network">>,
                       Amount |-> i, Parents |-> <<>>, Hash |-> <<>>]]

G1 == [createGenesis[1] EXCEPT !.Hash = <<"gen1">>]

G2 == [createGenesis[2] EXCEPT !.Hash = <<"gen2">>]

ZeroTx == [Sender |-> <<>>, Receiver |-> <<>>, Amount |-> 0,
           Parents |-> <<>>, Hash |-> <<>>]

GetTx(m, k) == IF k \in DOMAIN m THEN m[k] ELSE ZeroTx

\* Mutant of ParentChoices: the loop "for i == j" is lost.
ParentChoices_AnyPair(nodes) == (1 .. Len(nodes)) \X (1 .. Len(nodes))

\* The pairs of indices pickParents can return: the loop ends only with i # j.
ParentChoices(nodes) ==
    {ij \in (1 .. Len(nodes)) \X (1 .. Len(nodes)) : ij[1] # ij[2]}

pickParents(nodes, ij) == <<nodes[ij[1]].Hash, nodes[ij[2]].Hash>>

\* Mutant of RecvTx: the entry is stored whatever its parents.
RecvTx_Unchecked(s, t) ==
    [HashMap |-> Put(s.HashMap, t.Hash, t), Nodes |-> Append(s.Nodes, t)]

\* The receiver case of the tangle node on s = [HashMap, Nodes].
RecvTx(s, t) ==
    IF t.Parents[1] \in DOMAIN s.HashMap /\ t.Parents[2] \in DOMAIN s.HashMap
    THEN [HashMap |-> Put(s.HashMap, t.Hash, t), Nodes |-> Append(s.Nodes, t)]
    ELSE s

\* Mutant of Tips: no key is deleted from the tip set.
Tips_AllKeys(hm) == DOMAIN hm

\* Tips: every key, less the two parents of every entry that has two.
Tips(hm) ==
    DOMAIN hm \ UNION {{hm[h].Parents[1], hm[h].Parents[2]} :
                          h \in {x \in DOMAIN hm : Len(hm[x].Parents) >= 2}}

\* The set visited of one dfs(tip).
RECURSIVE Dfs(_, _, _)
RECURSIVE DfsAll(_, _, _)
Dfs(hm, hash, visited) ==
    IF hash \in visited THEN visited
    ELSE DfsAll(hm, GetTx(hm, hash).Parents, visited \cup {hash})

DfsAll(hm, parents, visited) ==
    IF parents = <<>> THEN visited
    ELSE DfsAll(hm, Tail(parents), Dfs(hm, Head(parents), visited))

\* Confidence after the loop over Tips: one increment per tip that visits.
Confidence(hm) ==
    LET seen == UNION {Dfs(hm, t, {}) : t \in Tips(hm)}
    IN  [h \in seen |-> Cardinality({t \in Tips(hm) : h \in Dfs(hm, t, {})})]

\* The loop "for k := range Confidence" on the shared maps
\* s = [tracker, map]; the order of the keys does not change its result.
RECURSIVE AggregateKeys(_, _, _)
AggregateKeys(keys, hm, s) ==
    IF keys = {} THEN s
    ELSE LET k  == CHOOSE x \in keys : TRUE
             a  == GetTx(hm, k).Amount
             s0 == IF a \in DOMAIN s.tracker THEN s
                   ELSE [tracker |-> Put(s.tracker, a, 0),
                         map     |-> Put(s.map, a, GetTx(hm, k))]
         IN  AggregateKeys(keys \ {k}, hm,
                 [s0 EXCEPT !.tracker = Put(s0.tracker, a, s0.tracker[a] + 1)])

RECURSIVE SumOver(_, _)
SumOver(f, keys) ==
    IF keys = {} THEN 0
    ELSE LET k == CHOOSE x \in keys : TRUE IN f[k] + SumOver(f, keys \ {k})

\* txConfirmed of SimulateDAG: the entries whose value is at least the
\* average, float64(v) >= total / len, that is v * len >= total.  With no
\* entry the average is NaN and no comparison holds.
AtLeastAverage(v, total, len) == v * len >= total

DagConfirmed(tracker) ==
    LET total == SumOver(tracker, DOMAIN tracker)
        len   == Cardinality(DOMAIN tracker)
    IN  IF len = 0 THEN 0
        ELSE Cardinality({k \in DOMAIN tracker :
                             AtLeastAverage(tracker[k], total, len)})

\* --------------------------------------------------------- node workers
\* "case tx, ok := <-inbox" with ok: the unbuffered send of the driver and
\* the receive of node i happen together; the driver moves to its next send.
NodeInbox(i) ==
    /\ Running
    /\ npc[i] = "loop"
    /\ dpc = "send" /\ si = i
    /\ ~inboxClosed[i]
    /\ transactions' = [transactions EXCEPT
                           ![i] = Append(@, TxsFor(i, honestTxs, corruptTxs)[st])]
    /\ received' = [received EXCEPT ![i] = @ + 1]
    /\ IF st < Len(TxsFor(i, honestTxs, corruptTxs))
       THEN /\ st' = st + 1
            /\ UNCHANGED <<si, round, dpc, honestTxs, corruptTxs>>
       ELSE LET f == FirstSend(i + 1, honestTxs, corruptTxs)
            IN  IF f = N
                THEN /\ round' = round + 1
                     /\ dpc' = LoopHead(round + 1)
                     /\ honestTxs' = <<>> /\ corruptTxs' = <<>>
                     /\ si' = 0 /\ st' = 0
                ELSE /\ si' = f /\ st' = 1
                     /\ UNCHANGED <<round, dpc, honestTxs, corruptTxs>>
    /\ UNCHANGED <<config, amt, txSent, ci, chans, sync, ledger, npc, bj, agg,
                   offered, recvFrom, due, aggOrder>>

\* Mutant of blockWGDone: the node leaves without signalling the barrier.
blockWGDone_Forgotten(count) == count

\* blockWG.Done()
blockWGDone(count) == count - 1

\* "case tx, ok := <-inbox" with !ok: the mailbox is closed.  The chain node
\* signals the barrier; both leave the loop.
NodeInboxClosed(i) ==
    /\ Running
    /\ npc[i] = "loop"
    /\ inboxClosed[i]
    /\ blockWG' = IF variant = "chain" THEN blockWGDone(blockWG) ELSE blockWG
    /\ npc' = [npc EXCEPT ![i] = "final"]
    /\ UNCHANGED <<config, driver, chans, wg, mu, panicked, ledger,
                   transactions, bj, agg, ghost>>

\* "case b, ok := <-receiver" with ok: the head of the buffer is integrated.
NodeRecv(i) ==
    /\ Running
    /\ npc[i] = "loop"
    /\ receivers[i] # <<>>
    /\ receivers' = [receivers EXCEPT ![i] = Tail(@)]
    /\ IF variant = "chain"
       THEN LET s == RecvBlock(ChainState(i), Head(receivers[i]))
            IN  /\ HashMap' = [HashMap EXCEPT ![i] = s.HashMap]
                /\ Counts' = [Counts EXCEPT ![i] = s.Counts]
                /\ MaxLength' = [MaxLength EXCEPT ![i] = s.MaxLength]
                /\ MaxChain' = [MaxChain EXCEPT ![i] = s.MaxChain]
                /\ UNCHANGED Nodes
       ELSE LET s == RecvTx([HashMap |-> HashMap[i], Nodes |-> Nodes[i]],
                            Head(receivers[i]))
            IN  /\ HashMap' = [HashMap EXCEPT ![i] = s.HashMap]
                /\ Nodes' = [Nodes EXCEPT ![i] = s.Nodes]
                /\ UNCHANGED <<Counts, MaxLength, MaxChain>>
    /\ UNCHANGED <<config, driver, inboxes, inboxClosed, recvClosed, sync,
                   local, agg, ghost>>

\* The default case is taken only when no other case is ready: the buffer
\* is empty and neither channel is closed.  (A send the driver has not yet
\* parked on the mailbox does not make the mailbox case ready.)
DefaultReady(i) ==
    /\ npc[i] = "loop"
    /\ receivers[i] = <<>>
    /\ ~recvClosed[i]
    /\ ~inboxClosed[i]

AfterMine(i) ==
    /\ offered' = [offered EXCEPT ![i] = {}]
    /\ bj' = [bj EXCEPT ![i] = NextDest(i, 0)]
    /\ npc' = [npc EXCEPT ![i] = IF NextDest(i, 0) = N THEN "loop" ELSE "bcast"]

\* Chain: "default" with queued transactions, up to the broadcast loop.
NodeMineBlock(i) ==
    /\ Running
    /\ variant = "chain"
    /\ DefaultReady(i)
    /\ Len(transactions[i]) > 0
    /\ LET s == MineBlock(ChainState(i), transactions[i])
       IN  /\ HashMap' = [HashMap EXCEPT ![i] = s.HashMap]
           /\ Counts' = [Counts EXCEPT ![i] = s.Counts]
           /\ MaxLength' = [MaxLength EXCEPT ![i] = s.MaxLength]
           /\ MaxChain' = [MaxChain EXCEPT ![i] = s.MaxChain]
    /\ transactions' = [transactions EXCEPT ![i] = <<>>]
    /\ AfterMine(i)
    /\ UNCHANGED <<config, driver, chans, sync, Nodes, agg,
                   recvFrom, received, due, aggOrder>>

\* Tangle: "default" with queued transactions, up to the broadcast loop.
NodeMineTx(i) ==
    /\ Running
    /\ variant \in {"dag", "bench"}
    /\ DefaultReady(i)
    /\ Len(transactions[i]) > 0
    /\ \E ij \in ParentChoices(Nodes[i]) :
          LET last == transactions[i][Len(transactions[i])]
              t    == mineTransaction(
                          [last EXCEPT !.Parents = pickParents(Nodes[i], ij)])
          IN  /\ HashMap' = [HashMap EXCEPT ![i] = Put(@, t.Hash, t)]
              /\ Nodes' = [Nodes EXCEPT ![i] = Append(@, t)]
    /\ transactions' = [transactions EXCEPT
                           ![i] = SubSeq(@, 1, Len(@) - 1)]
    /\ AfterMine(i)
    /\ UNCHANGED <<config, driver, chans, sync, Counts, MaxLength, MaxChain, agg,
                   recvFrom, received, due, aggOrder>>

\* The artifact node i is broadcasting.
Mined(i) ==
    IF variant = "chain" THEN HashMap[i][MaxChain[i]]
    ELSE Nodes[i][Len(Nodes[i])]

\* One iteration of the broadcast loop that is not skipped: the select with
\* a send case and a default.  A send on a closed channel panics.
NodeBroadcast(i) ==
    /\ Running
    /\ npc[i] = "bcast"
    /\ LET j == bj[i]
       IN  /\ IF recvClosed[j]
              THEN /\ panicked' = "send on closed channel"
                   /\ UNCHANGED <<receivers, recvFrom>>
              ELSE /\ UNCHANGED panicked
                   /\ IF Len(receivers[j]) < RecvCap
                      THEN /\ receivers' = [receivers EXCEPT
                                               ![j] = Append(@, Mined(i))]
                           /\ recvFrom' = [recvFrom EXCEPT ![j] = @ \cup {i}]
                      ELSE UNCHANGED <<receivers, recvFrom>>
           /\ offered' = [offered EXCEPT ![i] = @ \cup {j}]
           /\ bj' = [bj EXCEPT ![i] = NextDest(i, j + 1)]
           /\ npc' = [npc EXCEPT
                         ![i] = IF NextDest(i, j + 1) = N THEN "loop" ELSE "bcast"]
    /\ UNCHANGED <<config, driver, inboxes, inboxClosed, recvClosed,
                   blockWG, wg, mu, ledger, transactions, agg, received,
                   due, aggOrder>>

\* Mutant of Unlocked: Lock() returns whoever holds the mutex.
Unlocked_Always == TRUE

\* Lock() returns only when no worker holds the mutex.
Unlocked == mu = -1

\* winnerMu.Lock() / mu.Lock(), after the node's terminal view is computed.
NodeLock(i) ==
    /\ Running
    /\ npc[i] = "final"
    /\ Unlocked
    /\ mu' = i
    /\ npc' = [npc EXCEPT ![i] = "crit"]
    /\ UNCHANGED <<config, driver, chans, blockWG, wg, panicked, ledger,
                   transactions, bj, agg, ghost>>

\* Mutant of Beats: a tie replaces the winner.
Beats_OrEqual(chain, best) == Len(chain) >= Len(best)

\* "if len(BlockChain) > len(winner)"
Beats(chain, best) == Len(chain) > Len(best)

\* The critical section, the unlock and the deferred wg.Done().
NodeAggregate(i) ==
    /\ Running
    /\ npc[i] = "crit"
    /\ IF variant = "chain"
       THEN LET BlockChain == buildBlockChain(HashMap[i], G, MaxChain[i])
            IN  /\ winner' = IF Beats(BlockChain, winner) THEN BlockChain ELSE winner
                /\ winnerType' = IF Beats(BlockChain, winner)
                                 THEN getLabel(i, C) ELSE winnerType
                /\ UNCHANGED <<transactionTracker, transactionMap>>
       ELSE LET s == AggregateKeys(DOMAIN Confidence(HashMap[i]), HashMap[i],
                                   [tracker |-> transactionTracker,
                                    map     |-> transactionMap])
            IN  /\ transactionTracker' = s.tracker
                /\ transactionMap' = s.map
                /\ UNCHANGED <<winner, winnerType>>
    /\ mu' = -1
    /\ wg' = wg - 1
    /\ npc' = [npc EXCEPT ![i] = "done"]
    /\ aggOrder' = Append(aggOrder, i)
    /\ UNCHANGED <<config, driver, chans, blockWG, panicked, ledger,
                   transactions, bj, txConfirmed, view, offered, recvFrom,
                   received, due>>

\* Mutant of isHonest: every sender that is not corrupt counts as honest.
isHonest_NotCorrupt(name) == name # <<>> /\ name[1] # "corrupt"

\* A name is a label and what follows it: the name begins with "honest" and
\* is longer than it.
isHonest(name) == Len(name) > 1 /\ name[1] = "honest"

isCorrupt(name) == Len(name) > 1 /\ name[1] = "corrupt"

\* avgConf of a population with total sum over cnt entries is 0.0 when cnt
\* is 0 and sum / cnt otherwise; AvgGreater compares two of them.
AvgGreater(sumA, cntA, sumB, cntB) ==
    CASE cntA = 0 -> FALSE
      [] cntB = 0 -> sumA > 0
      [] OTHER -> sumA * cntB > sumB * cntA

\* winnerType of SimulateDAG.
DagWinnerType(tracker, map) ==
    LET hon == {k \in DOMAIN tracker : isHonest(map[k].Sender)}
        cor == {k \in DOMAIN tracker :
                   ~isHonest(map[k].Sender) /\ isCorrupt(map[k].Sender)}
    IN  IF AvgGreater(SumOver(tracker, cor), Cardinality(cor),
                      SumOver(tracker, hon), Cardinality(hon))
        THEN "corrupt" ELSE "honest"

\* getPercentage: 100.0 * float64(a) / float64(b) rounded to two decimals,
\* counted in hundredths.  A float64 division by zero does not fault: it
\* gives NaN for 0 / 0 and +Inf for a positive dividend, and math.Round
\* keeps both.  The result is a kind and, when finite, a value.
getPercentage(a, b) ==
    IF b = 0 THEN [kind |-> IF a = 0 THEN "NaN" ELSE "+Inf", value |-> 0]
    ELSE [kind |-> "finite", value |-> (20000 * a + b) \div (2 * b)]

\* txConfirmedPercentage as the driver reports it.
txConfirmedPercentage == getPercentage(txConfirmed, txSent)

\* wg.Wait() returns and the driver computes what it reports.
DriverWait ==
    /\ Running
    /\ dpc = "wait"
    /\ wg = 0
    /\ dpc' = "done"
    /\ txConfirmed' = IF variant = "chain"
                      THEN countConfirmedTransactions(winner)
                      ELSE DagConfirmed(transactionTracker)
    /\ winnerType' = IF variant = "chain" THEN winnerType
                     ELSE DagWinnerType(transactionTracker, transactionMap)
    /\ UNCHANGED <<config, round, amt, txSent, honestTxs, corruptTxs, si, st,
                   ci, chans, sync, ledger, local, winner,
                   transactionTracker, transactionMap, view, ghost>>

\* ------------------------------------------------------- specification
ValidConfig(v, n, c, r, prob) ==
    /\ v \in {"chain", "dag"}
    /\ n \in 2 .. MaxN
    /\ c \in 0 .. n
    /\ r \in 0 .. MaxR
    /\ prob \in 0 .. PScale
    /\ r = 0 \/ Cardinality(EligiblePairs(n, c)) <= MaxPairs
    /\ prob = PScale => Cardinality(EligiblePairs(n, c)) * r * n <= MaxWork

\* What a worker that has not reached its aggregation loop has read of the
\* shared maps.
NoneSeen == [tracker |-> EmptyMap, map |-> EmptyMap]

\* transactions := []Transaction{}
NoneQueued == transactions = [i \in NodeIds |-> <<>>]

InitState ==
    /\ dpc = LoopHead(0)
    /\ round = 0 /\ amt = 100 /\ txSent = 0
    /\ honestTxs = <<>> /\ corruptTxs = <<>>
    /\ si = 0 /\ st = 0 /\ ci = 0
    /\ inboxes = [i \in NodeIds |-> <<>>]
    /\ inboxClosed = [i \in NodeIds |-> FALSE]
    /\ recvClosed = [i \in NodeIds |-> FALSE]
    /\ receivers = [i \in NodeIds |-> <<>>]
    /\ blockWG = IF variant = "chain" THEN N ELSE 0
    /\ wg = N
    /\ mu = -1
    /\ panicked = ""
    /\ npc = [i \in NodeIds |-> "loop"]
    /\ HashMap = [i \in NodeIds |->
                    IF variant = "chain" THEN EmptyMap
                    ELSE Put(Put(EmptyMap, G1.Hash, G1), G2.Hash, G2)]
    /\ Counts = [i \in NodeIds |-> EmptyMap]
    /\ MaxLength = [i \in NodeIds |-> 0]
    /\ MaxChain = [i \in NodeIds |-> <<>>]
    /\ bj = [i \in NodeIds |-> 0]
    /\ Nodes = [i \in NodeIds |-> IF variant = "chain" THEN <<>> ELSE <<G1, G2>>]
    /\ winner = <<>>
    /\ winnerType = ""
    /\ transactionTracker = EmptyMap
    /\ transactionMap = EmptyMap
    /\ txConfirmed = 0
    /\ view = [i \in NodeIds |-> NoneSeen]
    /\ offered = [i \in NodeIds |-> {}]
    /\ recvFrom = [i \in NodeIds |-> {}]
    /\ received = [i \in NodeIds |-> 0]
    /\ due = [i \in NodeIds |-> 0]
    /\ aggOrder = <<>>

Init ==
    /\ variant \in {"chain", "dag"}
    /\ N \in 2 .. MaxN
    /\ C \in 0 .. N
    /\ R \in 0 .. MaxR
    /\ D \in 1 .. MaxD
    /\ p \in 0 .. PScale
    /\ ValidConfig(variant, N, C, R, p)
    /\ InitState
    /\ NoneQueued

Next ==
    \/ DriverRound
    \/ DriverCloseInbox
    \/ DriverBarrier
    \/ DriverCloseRecv
    \/ DriverWait
    \/ \E i \in NodeIds : NodeInbox(i)
    \/ \E i \in NodeIds : NodeInboxClosed(i)
    \/ \E i \in NodeIds : NodeRecv(i)
    \/ \E i \in NodeIds : NodeMineBlock(i)
    \/ \E i \in NodeIds : NodeMineTx(i)
    \/ \E i \in NodeIds : NodeBroadcast(i)
    \/ \E i \in NodeIds : NodeLock(i)
    \/ \E i \in NodeIds : NodeAggregate(i)

Spec == Init /\ [][Next]_vars

\* ------------------------------------------- SendTransactions on its own
\* SendTransactions with receivers that are always ready: the sends of a
\* round are taken together, whatever the receivers do with what they get.
SinkDrain ==
    /\ Running
    /\ variant = "send"
    /\ dpc = "send"
    /\ \A i \in NodeIds : ~inboxClosed[i]
    /\ received' = [i \in NodeIds |->
                       received[i] + Len(TxsFor(i, honestTxs, corruptTxs))]
    /\ round' = round + 1
    /\ dpc' = LoopHead(round + 1)
    /\ honestTxs' = <<>> /\ corruptTxs' = <<>>
    /\ si' = 0 /\ st' = 0
    /\ UNCHANGED <<config, amt, txSent, ci, chans, sync, ledger, local, agg,
                   offered, recvFrom, due, aggOrder>>

InitSend ==
    /\ variant = "send"
    /\ N \in 2 .. MaxSendN
    /\ C \in 0 .. N
    /\ R \in 0 .. MaxR
    /\ D \in 1 .. MaxD
    /\ p \in 0 .. PScale
    /\ InitState
    /\ NoneQueued

NextSend ==
    \/ DriverRound
    \/ SinkDrain
    \/ DriverCloseInbox

SpecSend == InitSend /\ [][NextSend]_vars

\* --------------------------- SendTransactions of src/unnamed/part_002
\* The older driver, with receivers that are always ready.  One iteration of
\* its round loop up to the send loop: the draws and the two lists.
OldDriverRound ==
    /\ Running
    /\ variant = "old"
    /\ dpc = "round"
    /\ \E S \in SUBSET EligiblePairs(N, C) :
        /\ \A pr \in EligiblePairs(N, C) : (pr \in S) \in SendOutcomes(p)
        /\ DrawAllowed(S)
        /\ LET hon == RoundTxs(S, "honest", amt, N, C)
               cor == RoundTxs(S, "corrupt", amt, N, C)
           IN  /\ txSent' = txSent + Cardinality(S)
               /\ amt' = amt + Cardinality(EligiblePairs(N, C))
               /\ due' = [i \in NodeIds |-> due[i] + Len(TxsFor(i, hon, cor))]
               /\ honestTxs' = hon /\ corruptTxs' = cor
    /\ dpc' = "send" /\ si' = 0 /\ st' = 1
    /\ UNCHANGED <<config, round, ci, chans, sync, ledger, local, agg,
                   offered, recvFrom, received, aggOrder>>

\* "inboxes[i] <- txs[t]": a send on a closed channel panics.
OldDriverSend ==
    /\ Running
    /\ variant = "old"
    /\ dpc = "send"
    /\ st <= Len(TxsFor(si, honestTxs, corruptTxs))
    /\ IF inboxClosed[si]
       THEN /\ panicked' = "send on closed channel"
            /\ UNCHANGED <<st, received>>
       ELSE /\ received' = [received EXCEPT ![si] = @ + 1]
            /\ st' = st + 1
            /\ UNCHANGED panicked
    /\ UNCHANGED <<config, dpc, round, amt, txSent, honestTxs, corruptTxs, si,
                   ci, chans, blockWG, wg, mu, ledger, local, agg,
                   offered, recvFrom, due, aggOrder>>

\* "close(inboxes[i])" at the end of the body of the send loop, inside the
\* round loop; closing a closed channel panics.
OldDriverClose ==
    /\ Running
    /\ variant = "old"
    /\ dpc = "send"
    /\ st > Len(TxsFor(si, honestTxs, corruptTxs))
    /\ IF inboxClosed[si]
       THEN /\ panicked' = "close of closed channel"
            /\ UNCHANGED <<inboxClosed, dpc, round, si, st, honestTxs, corruptTxs>>
       ELSE /\ inboxClosed' = [inboxClosed EXCEPT ![si] = TRUE]
            /\ UNCHANGED panicked
            /\ IF si + 1 = N
               THEN /\ round' = round + 1
                    /\ dpc' = IF RoundsDone(round + 1) THEN "returned" ELSE "round"
                    /\ honestTxs' = <<>> /\ corruptTxs' = <<>>
                    /\ si' = 0 /\ st' = 0
               ELSE /\ si' = si + 1 /\ st' = 1
                    /\ UNCHANGED <<dpc, round, honestTxs, corruptTxs>>
    /\ UNCHANGED <<config, amt, txSent, ci, inboxes, recvClosed, receivers,
                   blockWG, wg, mu, ledger, local, agg, ghost>>

InitOld ==
    /\ variant = "old"
    /\ N \in 2 .. MaxOldN
    /\ C \in 0 .. N
    /\ R \in 0 .. MaxR
    /\ D \in 1 .. MaxD
    /\ p \in 0 .. PScale
    /\ InitState
    /\ NoneQueued

NextOld ==
    \/ OldDriverRound
    \/ OldDriverSend
    \/ OldDriverClose

SpecOld == InitOld /\ [][NextOld]_vars

\* ------------------------------- the node loop of SimulateDAGBenchmark
\* The transactions the benchmark's driver puts into the mailbox of node i
\* when exactly the pairs of S pass the probability test: each goes to its
\* sender only, and amt grows with each one sent.
BenchTxs(S, i, n, c) ==
    LET sel  == SelectSeq(PairSeq(n, c), LAMBDA pr : pr \in S)
        mine == SelectSeq([m \in 1 .. Len(sel) |-> m], LAMBDA m : sel[m][1] = i)
    IN  [k \in 1 .. Len(mine) |->
            Tx(Name(sel[mine[k]][1], c), Name(sel[mine[k]][2], c),
               100 + mine[k] - 1)]

\* The workers of SimulateDAGBenchmark once every node has read what the
\* driver sent it and before the driver closes the mailboxes: at most
\* MaxQueue transactions were sent.
InitBench ==
    /\ variant = "bench"
    /\ N \in 2 .. MaxN
    /\ C \in 0 .. N
    /\ R = 1
    /\ D \in 1 .. MaxD
    /\ p \in 0 .. PScale
    /\ InitState
    /\ \E S \in SUBSET EligiblePairs(N, C) :
          /\ Cardinality(S) <= MaxQueue
          /\ p = PScale => S = EligiblePairs(N, C)
          /\ transactions = [i \in NodeIds |-> BenchTxs(S, i, N, C)]

NextBench ==
    \/ \E i \in NodeIds : NodeRecv(i)
    \/ \E i \in NodeIds : NodeMineTx(i)
    \/ \E i \in NodeIds : NodeBroadcast(i)

SpecBench == InitBench /\ [][NextBench]_vars

\* --------------------------------------- runs in which every draw passes
\* SimulateBlockchain with p = 1.0 and at least one honest node: every
\* round hands every transaction of its population to each node, so that a
\* node can mine more blocks than a peer's receive buffer holds (N = 2) and
\* two nodes can extend the same block (N = 3).  The transactions handed
\* over in the whole run are at most MaxBurstWork.
InitBurst ==
    /\ variant = "chain"
    /\ N \in 2 .. MaxN
    /\ C \in 0 .. (N - 1)
    /\ R \in 1 .. MaxBurstR
    /\ D \in 1 .. MaxD
    /\ p = PScale
    /\ Cardinality(EligiblePairs(N, C)) * R * N <= MaxBurstWork
    /\ InitState
    /\ NoneQueued

\* The steps of SimulateBlockchain.
NextChain ==
    \/ DriverRound
    \/ DriverCloseInbox
    \/ DriverBarrier
    \/ DriverCloseRecv
    \/ DriverWait
    \/ \E i \in NodeIds : NodeInbox(i)
    \/ \E i \in NodeIds : NodeInboxClosed(i)
    \/ \E i \in NodeIds : NodeRecv(i)
    \/ \E i \in NodeIds : NodeMineBlock(i)
    \/ \E i \in NodeIds : NodeBroadcast(i)
    \/ \E i \in NodeIds : NodeLock(i)
    \/ \E i \in NodeIds : NodeAggregate(i)

SpecBurst == InitBurst /\ [][NextChain]_vars

\* --------------------------------------------- SimulateDAG of src/dag.go
\* SimulateDAG of src/dag.go has the driver and the node loop of the tangle
\* variant and no mutex: a worker that has computed its confidence scores
\* goes straight into the loop over the shared maps.  Its reads of the maps
\* fall anywhere between its first iteration and its last one, so for every
\* identifier it sees either what the maps held when it began or what they
\* hold when it ends.

\* The worker begins "for k := range Confidence".
GoNodeEnter(i) ==
    /\ Running
    /\ npc[i] = "final"
    /\ npc' = [npc EXCEPT ![i] = "crit"]
    /\ view' = [view EXCEPT ![i] = [tracker |-> transactionTracker,
                                    map     |-> transactionMap]]
    /\ UNCHANGED <<config, driver, chans, sync, ledger, transactions, bj,
                   winner, winnerType, transactionTracker, transactionMap,
                   txConfirmed, ghost>>

\* The identifiers under which worker i reads and writes the shared maps.
Touched(i) ==
    {GetTx(HashMap[i], k).Amount : k \in DOMAIN Confidence(HashMap[i])}

\* The map a worker reads when its reads under the identifiers of S are
\* those of old and the others those of cur.
Mix(cur, old, S) ==
    [a \in (DOMAIN cur \ S) \cup (DOMAIN old \cap S) |->
        IF a \in S THEN old[a] ELSE cur[a]]

\* The shared maps as worker i reads them when its reads under S are stale.
StaleOn(i, S) ==
    [tracker |-> Mix(transactionTracker, view[i].tracker, S),
     map     |-> Mix(transactionMap, view[i].map, S)]

\* Another worker is inside the loop over the shared maps.
Overlapping(i) == \E j \in NodeIds \ {i} : npc[j] = "crit"

\* The loop over the shared maps ends and the deferred wg.Done() runs: what
\* the worker writes under an identifier is computed from what it read.
GoNodeAggregate(i) ==
    /\ Running
    /\ npc[i] = "crit"
    /\ \E S \in SUBSET Touched(i) :
          LET s == AggregateKeys(DOMAIN Confidence(HashMap[i]), HashMap[i],
                                 StaleOn(i, S))
          IN  /\ transactionTracker' = s.tracker
              /\ transactionMap' = s.map
    /\ wg' = wg - 1
    /\ npc' = [npc EXCEPT ![i] = "done"]
    /\ aggOrder' = Append(aggOrder, i)
    /\ UNCHANGED <<config, driver, chans, blockWG, mu, panicked, ledger,
                   transactions, bj, winner, winnerType, txConfirmed, view,
                   offered, recvFrom, received, due>>

\* The runtime finds two workers in the same map and stops the program
\* with "fatal error: concurrent map writes".
GoMapFault(i) ==
    /\ Running
    /\ npc[i] = "crit"
    /\ Overlapping(i)
    /\ panicked' = "concurrent map writes"
    /\ UNCHANGED <<config, driver, chans, blockWG, wg, mu, ledger, local,
                   agg, ghost>>

\* wg.Wait() returns; what follows only prints the shared maps.
GoDriverWait ==
    /\ Running
    /\ dpc = "wait"
    /\ wg = 0
    /\ dpc' = "done"
    /\ UNCHANGED <<config, round, amt, txSent, honestTxs, corruptTxs, si, st,
                   ci, chans, sync, ledger, local, agg, ghost>>

InitDagGo ==
    /\ variant = "dag"
    /\ N \in 2 .. MaxN
    /\ C \in 0 .. N
    /\ R \in 0 .. MaxGoR
    /\ D \in 1 .. MaxD
    /\ p \in 0 .. PScale
    /\ ValidConfig(variant, N, C, R, p)
    /\ InitState
    /\ NoneQueued

NextDagGo ==
    \/ DriverRound
    \/ DriverCloseInbox
    \/ GoDriverWait
    \/ \E i \in NodeIds : NodeInbox(i)
    \/ \E i \in NodeIds : NodeInboxClosed(i)
    \/ \E i \in NodeIds : NodeMineTx(i)
    \/ \E i \in NodeIds : NodeBroadcast(i)
    \/ \E i \in NodeIds : GoNodeEnter(i)
    \/ \E i \in NodeIds : GoNodeAggregate(i)
    \/ \E i \in NodeIds : GoMapFault(i)

SpecDagGo == InitDagGo /\ [][NextDagGo]_vars

\* ------------------------------------------- SimulateBlockchainBenchmark
\* SimulateBlockchainBenchmark of src/unnamed/part_002: the driver puts
\* every transaction into the mailbox of its sender, closes the mailboxes
\* and only then starts the workers.  si counts the eligible pairs the two
\* inner loops have passed in the current round.

\* "inboxes[i] <- tx" on a mailbox nobody reads yet goes through only while
\* the buffer has room.
HasRoom(buf) == Len(buf) < BenchCap

\* One pass through the body of the two inner loops for an eligible pair:
\* the draw and, when it passes, the send.  A send on a full mailbox parks
\* the driver, and no worker exists that could take anything out.
PowBenchSubmit ==
    /\ Running
    /\ variant = "powbench"
    /\ dpc = "round"
    /\ LET ps   == PairSeq(N, C)
           last == si + 1 >= Len(ps)
       IN  \E sends \in SendOutcomes(p) :
              IF ps # <<>> /\ sends /\ ~HasRoom(inboxes[ps[si + 1][1]])
              THEN /\ dpc' = "blocked"
                   /\ UNCHANGED <<round, amt, txSent, si, inboxes>>
              ELSE /\ IF ps # <<>> /\ sends
                      THEN LET pr == ps[si + 1]
                           IN  /\ inboxes' = [inboxes EXCEPT ![pr[1]] =
                                     Append(@, Tx(Name(pr[1], C),
                                                  Name(pr[2], C), amt))]
                               /\ amt' = amt + 1
                               /\ txSent' = txSent + 1
                      ELSE UNCHANGED <<inboxes, amt, txSent>>
                   /\ si' = IF last THEN 0 ELSE si + 1
                   /\ round' = IF last THEN round + 1 ELSE round
                   /\ dpc' = IF last THEN LoopHead(round + 1) ELSE "round"
    /\ UNCHANGED <<config, honestTxs, corruptTxs, st, ci, inboxClosed,
                   recvClosed, receivers, sync, ledger, local, agg, ghost>>

\* The loop of close(inboxes[i]), wg.Add(N) and the start of the workers.
PowBenchClose ==
    /\ Running
    /\ variant = "powbench"
    /\ dpc = "close"
    /\ inboxClosed' = [i \in NodeIds |-> TRUE]
    /\ dpc' = "wait"
    /\ UNCHANGED <<config, round, amt, txSent, honestTxs, corruptTxs, si, st,
                   ci, inboxes, recvClosed, receivers, sync, ledger, local,
                   agg, ghost>>

\* "for tx := range inboxes[i]" on the closed mailbox, and the block the
\* worker builds on the genesis block from what it took out.
PowBenchWorker(i) ==
    /\ Running
    /\ variant = "powbench"
    /\ dpc = "wait"
    /\ npc[i] = "loop"
    /\ inboxes' = [inboxes EXCEPT ![i] = <<>>]
    /\ transactions' = [transactions EXCEPT ![i] = inboxes[i]]
    /\ received' = [received EXCEPT ![i] = Len(inboxes[i])]
    /\ IF inboxes[i] # <<>>
       THEN LET block == generateBlock(MaxChain[i], inboxes[i])
            IN  /\ HashMap' = [HashMap EXCEPT
                                  ![i] = Put(@, block.Hash, block)]
                /\ Counts' = [Counts EXCEPT
                                 ![i] = Put(@, block.Hash,
                                            GetCount(@, block.PrevHash) + 1)]
                /\ MaxChain' = [MaxChain EXCEPT ![i] = block.Hash]
       ELSE UNCHANGED <<HashMap, Counts, MaxChain>>
    /\ npc' = [npc EXCEPT ![i] = "final"]
    /\ UNCHANGED <<config, driver, inboxClosed, recvClosed, receivers, sync,
                   MaxLength, Nodes, bj, agg, offered, recvFrom, due,
                   aggOrder>>

\* The update of winnerChain under winnerMu, the unlock and wg.Done().
PowBenchAggregate(i) ==
    /\ Running
    /\ variant = "powbench"
    /\ npc[i] = "crit"
    /\ LET chain == buildBlockChain(HashMap[i], G, MaxChain[i])
       IN  /\ winner' = IF Beats(chain, winner) THEN chain ELSE winner
           /\ winnerType' = IF Beats(chain, winner)
                            THEN getLabel(i, C) ELSE winnerType
    /\ mu' = -1
    /\ wg' = wg - 1
    /\ npc' = [npc EXCEPT ![i] = "done"]
    /\ aggOrder' = Append(aggOrder, i)
    /\ UNCHANGED <<config, driver, chans, blockWG, panicked, ledger,
                   transactions, bj, transactionTracker, transactionMap,
                   txConfirmed, view, offered, recvFrom, received, due>>

\* wg.Wait() returns and txConfirmed adds up the blocks of winnerChain.
PowBenchWait ==
    /\ Running
    /\ variant = "powbench"
    /\ dpc = "wait"
    /\ wg = 0
    /\ dpc' = "done"
    /\ txConfirmed' = TotalTxs(winner)
    /\ UNCHANGED <<config, round, amt, txSent, honestTxs, corruptTxs, si, st,
                   ci, chans, sync, ledger, local, winner, winnerType,
                   transactionTracker, transactionMap, view, ghost>>

\* The runs explored: with p = 1.0 every draw passes and up to MaxBenchR
\* rounds are run; with a smaller p the draws differ from run to run and
\* the rounds and the eligible pairs are bounded as in SimulateBlockchain.
InitPowBench ==
    /\ variant = "powbench"
    /\ N \in 2 .. MaxN
    /\ C \in 0 .. N
    /\ R \in 0 .. MaxBenchR
    /\ D \in 1 .. MaxD
    /\ p \in 0 .. PScale
    /\ p = PScale \/ (/\ R <= MaxR
                      /\ Cardinality(EligiblePairs(N, C)) <= MaxPairs)
    /\ dpc = LoopHead(0)
    /\ round = 0 /\ amt = 100 /\ txSent = 0
    /\ honestTxs = <<>> /\ corruptTxs = <<>>
    /\ si = 0 /\ st = 0 /\ ci = 0
    /\ inboxes = [i \in NodeIds |-> <<>>]
    /\ inboxClosed = [i \in NodeIds |-> FALSE]
    /\ recvClosed = [i \in NodeIds |-> FALSE]
    /\ receivers = [i \in NodeIds |-> <<>>]
    /\ blockWG = 0
    /\ wg = N
    /\ mu = -1
    /\ panicked = ""
    /\ npc = [i \in NodeIds |-> "loop"]
    /\ HashMap = [i \in NodeIds |-> Put(EmptyMap, G.Hash, G)]
    /\ Counts = [i \in NodeIds |-> EmptyMap]
    /\ MaxLength = [i \in NodeIds |-> 0]
    /\ MaxChain = [i \in NodeIds |-> G.Hash]
    /\ bj = [i \in NodeIds |-> 0]
    /\ Nodes = [i \in NodeIds |-> <<>>]
    /\ winner = <<>>
    /\ winnerType = ""
    /\ transactionTracker = EmptyMap
    /\ transactionMap = EmptyMap
    /\ txConfirmed = 0
    /\ view = [i \in NodeIds |-> NoneSeen]
    /\ offered = [i \in NodeIds |-> {}]
    /\ recvFrom = [i \in NodeIds |-> {}]
    /\ received = [i \in NodeIds |-> 0]
    /\ due = [i \in NodeIds |-> 0]
    /\ aggOrder = <<>>
    /\ NoneQueued

NextPowBench ==
    \/ PowBenchSubmit
    \/ PowBenchClose
    \/ PowBenchWait
    \/ \E i \in NodeIds : PowBenchWorker(i)
    \/ \E i \in NodeIds : NodeLock(i)
    \/ \E i \in NodeIds : PowBenchAggregate(i)

SpecPowBench == InitPowBench /\ [][NextPowBench]_vars

\* ------------------------------------- calls with an invalid configuration
\* SimulateBlockchain and SimulateDAG called with N < 2 or C > N: neither
\* has a statement that looks at its arguments before the workers start, so
\* the state after construction is the same function of N, C, R and p.
InvalidConfig(n, c) == n < 2 \/ c > n

InitUnchecked ==
    /\ variant \in {"chain", "dag"}
    /\ N \in 1 .. MaxN
    /\ C \in 0 .. (MaxN + 1)
    /\ InvalidConfig(N, C)
    /\ R \in 0 .. MaxR
    /\ D \in 1 .. MaxD
    /\ p \in 0 .. PScale
    /\ R = 0 \/ Cardinality(EligiblePairs(N, C)) <= MaxPairs
    /\ p = PScale => Cardinality(EligiblePairs(N, C)) * R * N <= MaxWork
    /\ InitState
    /\ NoneQueued

SpecUnchecked == InitUnchecked /\ [][Next]_vars

\* ------------------------------------------------------------ properties
Corrupt(i) == i < C

Honest(i) == i >= C

\* Node i has left its main loop.
PastLoop(i) == npc[i] \in {"final", "crit", "done"}

\* The candidate chain of node i (its ledger no longer changes once it has
\* left the loop).
Candidate(i) == buildBlockChain(HashMap[i], G, MaxChain[i])

Max(S) == CHOOSE x \in S : \A y \in S : x >= y

\* C1: in the chain variant no worker ever sends on a closed receive buffer:
\* a receive buffer is closed only when the barrier count is zero and every
\* node has signalled it and left its loop, so that none is mining or
\* broadcasting.
C1_NoSendOnClosedReceiver ==
    variant = "chain" =>
        /\ panicked # "send on closed channel"
        /\ blockWG = Cardinality({i \in NodeIds : ~PastLoop(i)})
        /\ \A j \in NodeIds :
              recvClosed[j] => blockWG = 0 /\ \A i \in NodeIds : PastLoop(i)

\* A receive buffer that took blocks has been closed by the driver.
C1_Witness ==
    /\ variant = "chain"
    /\ \E j \in NodeIds : recvClosed[j] /\ recvFrom[j] # {}

\* C2: every delivery attempt from i to j has i # j and not (i corrupt and
\* j honest), and a finished broadcast has attempted exactly the other nodes
\* the policy allows: all of them for an honest sender, the corrupt ones for
\* a corrupt sender.
C2_DeliveryPolicy ==
    \A i \in NodeIds :
        /\ \A j \in offered[i] \cup (IF npc[i] = "bcast" THEN {bj[i]} ELSE {}) :
              j # i /\ ~(Corrupt(i) /\ Honest(j))
        /\ (npc[i] # "bcast" /\ offered[i] # {}) =>
              offered[i] = {j \in NodeIds \ {i} : Honest(i) \/ Corrupt(j)}

\* A corrupt sender, with an honest node in the run, has finished a broadcast
\* in the tangle variant.
C2_Witness ==
    /\ variant = "dag"
    /\ \E i \in NodeIds : \E j \in NodeIds :
          Corrupt(i) /\ Honest(j) /\ offered[i] # {} /\ npc[i] = "loop"

\* C3 as stated: no corrupt node has received an artifact that an honest
\* node mined.
C3_CorruptNeverReceiveHonest ==
    \A j \in NodeIds : Corrupt(j) => \A i \in recvFrom[j] : Corrupt(i)

\* C3 as amended: no honest node has received an artifact that a corrupt
\* node mined.
C3_HonestNeverReceiveCorrupt ==
    \A j \in NodeIds : Honest(j) => \A i \in recvFrom[j] : Honest(i)

\* A corrupt node has finished a broadcast that reached a corrupt peer, and
\* an honest node of the same run has received nothing.
C3_Witness ==
    \E i \in NodeIds : \E k \in NodeIds : \E j \in NodeIds :
        /\ Corrupt(i) /\ Corrupt(k) /\ Honest(j)
        /\ npc[i] = "loop" /\ i \in recvFrom[k]
        /\ recvFrom[j] = {}

\* C4: a chain node leaves its loop only with its mailbox closed and its
\* receive buffer empty.
C4_LeavesLoopDrained ==
    [][\A i \in NodeIds :
          (variant = "chain" /\ npc[i] = "loop" /\ npc'[i] = "final")
              => (inboxClosed[i] /\ receivers[i] = <<>>)]_vars

\* C5: a mailbox is closed once, after all R rounds and after every
\* transaction addressed to its node has been handed over; the driver is
\* never at a send on a closed mailbox, and a node leaves on a closed
\* mailbox only with everything addressed to it received.
C5_MailboxClosure ==
    /\ panicked # "close of closed channel"
    /\ dpc = "send" => ~inboxClosed[si]
    /\ \A i \in NodeIds :
          /\ inboxClosed[i] =>
                round = R /\ dpc \notin {"round", "send"} /\ received[i] = due[i]
          /\ PastLoop(i) => inboxClosed[i] /\ received[i] = due[i]

\* A node has left on its closed mailbox after two rounds, holding a
\* transaction of the second round and a block mined from the first.
C5_Witness ==
    \E i \in NodeIds :
        /\ R = 2 /\ variant = "chain"
        /\ PastLoop(i) /\ received[i] = 2
        /\ MaxLength[i] >= 1
        /\ transactions[i] # <<>>
        /\ transactions[i][1].Amount >= 100 + Len(PairSeq(N, C))

\* C6: after any number of chain nodes have contributed, the winner is the
\* candidate of the first contributor whose candidate has the maximum length
\* among the contributors, and the label is that node's population.
C6_WinnerIsFirstLongest ==
    (variant = "chain" /\ aggOrder # <<>>) =>
        LET len(k) == Len(Candidate(aggOrder[k]))
            maxLen == Max({len(k) : k \in 1 .. Len(aggOrder)})
            first  == Min({k \in 1 .. Len(aggOrder) : len(k) = maxLen})
        IN  /\ Len(winner) = maxLen
            /\ winner = Candidate(aggOrder[first])
            /\ winnerType = getLabel(aggOrder[first], C)

\* All nodes have contributed, and a corrupt and an honest node tie with
\* the maximum length, longer than the bare genesis.
C6_Witness ==
    /\ variant = "chain" /\ dpc = "done"
    /\ \E a \in NodeIds : \E b \in NodeIds :
          /\ Corrupt(a) /\ Honest(b)
          /\ Len(Candidate(a)) = Len(winner)
          /\ Len(Candidate(b)) = Len(winner)
          /\ Len(winner) >= 2

SentBound(n, c, r) == r * (c * (c - 1) + (n - c) * (n - c - 1))

\* C7: txSent never exceeds R*(C*(C-1) + (N-C)*(N-C-1)), which is at most
\* N*(N-1)*R; with p = 1.0 SendTransactions returns exactly that bound, 6
\* for N = 4, C = 1, R = 1.
C7_SentBound ==
    /\ txSent <= SentBound(N, C, R)
    /\ SentBound(N, C, R) <= N * (N - 1) * R
    /\ (dpc = "returned" /\ p = PScale) => txSent = SentBound(N, C, R)
    /\ (dpc = "returned" /\ p = PScale /\ N = 4 /\ C = 1 /\ R = 1) => txSent = 6

C7_Witness ==
    dpc = "returned" /\ p = PScale /\ N = 4 /\ C = 1 /\ R = 1 /\ txSent = 6

\* C8: in the chain variant the reported transactions confirmed is at most
\* the transactions sent.
C8_ChainConfirmedAtMostSent ==
    (variant = "chain" /\ dpc = "done") =>
        /\ txConfirmed <= txSent
        /\ countConfirmedTransactions(winner) <= txSent

\* The winning chain holds a transaction more than once: it has more
\* entries than were sent.
C8_Witness ==
    /\ variant = "chain" /\ dpc = "done"
    /\ txSent >= 1
    /\ TotalTxs(winner) > txSent

\* C9: in the tangle variant the reported transactions confirmed is at most
\* the transactions sent.
C9_DagConfirmedAtMostSent ==
    (variant = "dag" /\ dpc = "done") => txConfirmed <= txSent

\* The amounts for which some node computed a non-zero confidence.
ReportedAmounts ==
    UNION {{HashMap[i][h].Amount :
               h \in {x \in DOMAIN Confidence(HashMap[i]) :
                         Confidence(HashMap[i])[x] > 0}} : i \in NodeIds}

\* C10: in the tangle variant the reported transactions confirmed is the
\* number of distinct amounts for which some node reported a non-zero
\* confidence.
C10_ConfirmedCountsReported ==
    (variant = "dag" /\ dpc = "done") =>
        txConfirmed = Cardinality(ReportedAmounts)

\* The entries of hm that name h as a parent.
Children(hm, h) ==
    {k \in DOMAIN hm : \E n \in 1 .. Len(hm[k].Parents) : hm[k].Parents[n] = h}

\* The fingerprints reachable from the set S through at most n parent
\* references.
RECURSIVE ReachWithin(_, _, _)
ReachWithin(hm, S, n) ==
    IF n = 0 THEN S
    ELSE ReachWithin(hm,
             S \cup UNION {{GetTx(hm, k).Parents[m] :
                               m \in 1 .. Len(GetTx(hm, k).Parents)} : k \in S},
             n - 1)

Reaches(hm, t, h) == h \in ReachWithin(hm, {t}, Cardinality(DOMAIN hm))

\* C11: for a tangle node that has left its loop, the tips are the known
\* fingerprints that no known entry names as a parent, every known
\* fingerprint has a confidence, and it is the number of tips that reach it
\* through parent references: an integer from 1 to the number of tips.  With
\* the two genesis entries and one entry naming both, that entry is the only
\* tip and the three confidences are 1.
C11_ConfidenceCountsTips ==
    \A i \in NodeIds :
        (variant = "dag" /\ PastLoop(i)) =>
            LET hm   == HashMap[i]
                tips == Tips(hm)
                conf == Confidence(hm)
            IN  /\ tips = {h \in DOMAIN hm : Children(hm, h) = {}}
                /\ DOMAIN conf = DOMAIN hm
                /\ \A h \in DOMAIN hm :
                      /\ conf[h] = Cardinality({t \in tips : Reaches(hm, t, h)})
                      /\ conf[h] \in 1 .. Cardinality(tips)
                /\ (/\ Cardinality(DOMAIN hm) = 3
                    /\ \E h \in DOMAIN hm :
                          hm[h].Parents \in {<<G1.Hash, G2.Hash>>, <<G2.Hash, G1.Hash>>})
                      => /\ Cardinality(tips) = 1
                         /\ \A h \in DOMAIN hm : conf[h] = 1

\* A node has left its loop with the two genesis entries and one entry that
\* names both.
C11_Witness ==
    \E i \in NodeIds :
        /\ variant = "dag" /\ PastLoop(i)
        /\ Cardinality(DOMAIN HashMap[i]) = 3
        /\ \E h \in DOMAIN HashMap[i] :
              HashMap[i][h].Parents = <<G1.Hash, G2.Hash>>

\* Every entry of the ledger hm other than the two genesis entries names two
\* parents, both in hm.
ParentsKnown(hm) ==
    \A h \in DOMAIN hm \ {G1.Hash, G2.Hash} :
        /\ Len(hm[h].Parents) = 2
        /\ hm[h].Parents[1] \in DOMAIN hm
        /\ hm[h].Parents[2] \in DOMAIN hm

\* Node i takes from its receive buffer an entry with a parent it does not
\* know.
TakesOrphan(i) ==
    /\ npc[i] = "loop" /\ receivers[i] # <<>>
    /\ receivers'[i] = Tail(receivers[i])
    /\ \E n \in 1 .. 2 : Head(receivers[i]).Parents[n] \notin DOMAIN HashMap[i]

\* C12: in the tangle node loop every non-genesis entry of a node's ledger
\* has both its parents in that ledger, and receiving an entry with an
\* unknown parent leaves the ledger and the node list as they were.
C12_ParentsKnown ==
    /\ [](\A i \in NodeIds : ParentsKnown(HashMap[i]))
    /\ [][\A i \in NodeIds :
             TakesOrphan(i) => (HashMap'[i] = HashMap[i] /\ Nodes'[i] = Nodes[i])]_vars

\* Node k has mined an entry and finished offering it, node j was offered
\* it, has emptied its receive buffer and does not hold it: j discarded it.
\* Both hold entries beyond the genesis pair.
C12_Witness ==
    \E k \in NodeIds : \E j \in NodeIds \ {k} :
        /\ variant = "bench"
        /\ npc[k] = "loop" /\ ~Skip(k, j)
        /\ receivers[j] = <<>>
        /\ Cardinality(DOMAIN HashMap[j]) > 2
        /\ \E n \in 1 .. Len(Nodes[k]) :
              /\ Nodes[k][n].Sender = Name(k, C)
              /\ Nodes[k][n].Hash \notin DOMAIN HashMap[j]

\* Node i mines a block in this step: its queue is flushed.
Mints(i) ==
    /\ variant = "chain" /\ npc[i] = "loop"
    /\ transactions[i] # <<>> /\ transactions'[i] = <<>>

\* C13: whenever a chain node mints a block, the previous-hash written into
\* the block is the fingerprint of an artifact already in the node's ledger.
C13_PrevHashInLedger ==
    [][\A i \in NodeIds :
          Mints(i) => HashMap'[i][MaxChain'[i]].PrevHash \in DOMAIN HashMap[i]]_vars

\* C14: a chain node's MaxLength is at least the recorded length of every
\* block of its ledger and is the recorded length of its best tip, and no
\* step makes it smaller.
C14_BestLengthIsMax ==
    /\ [](variant = "chain" =>
             \A i \in NodeIds :
                 /\ \A h \in DOMAIN Counts[i] : MaxLength[i] >= Counts[i][h]
                 /\ MaxLength[i] = GetCount(Counts[i], MaxChain[i]))
    /\ [][variant = "chain" =>
             \A i \in NodeIds : MaxLength'[i] >= MaxLength[i]]_vars

\* A node holds a received block of recorded length 2 or more that is
\* shorter than its best length and is not on its candidate chain.
C14_Witness ==
    \E i \in NodeIds :
        /\ variant = "chain" /\ recvFrom[i] # {}
        /\ \E h \in DOMAIN Counts[i] :
              /\ Counts[i][h] >= 2
              /\ Counts[i][h] < MaxLength[i]
              /\ \A k \in 1 .. Len(Candidate(i)) : Candidate(i)[k].Hash # h

\* C15: in SimulateDAG at most one worker is inside the aggregation update
\* and it holds the mutex; transactionTracker and transactionMap change only
\* in a step of the worker that holds the mutex; and the driver reads them
\* only when every worker has finished.
C15_TrackerUnderMutex ==
    /\ [](variant = "dag" =>
             /\ Cardinality({i \in NodeIds : npc[i] = "crit"}) <= 1
             /\ \A i \in NodeIds : npc[i] = "crit" => mu = i
             /\ dpc = "done" => (wg = 0 /\ \A i \in NodeIds : npc[i] = "done"))
    /\ [][(/\ variant = "dag"
            /\ <<transactionTracker, transactionMap>>' #
                   <<transactionTracker, transactionMap>>)
              => (/\ mu \in NodeIds
                  /\ npc[mu] = "crit" /\ npc'[mu] = "done"
                  /\ \A j \in NodeIds \ {mu} : npc'[j] = npc[j])]_vars

\* One worker is inside the update after another has finished its own, and
\* a third waits for the mutex.
C15_Witness ==
    /\ variant = "dag"
    /\ transactionTracker # EmptyMap
    /\ \E i \in NodeIds : \E j \in NodeIds :
          npc[i] = "crit" /\ mu = i /\ npc[j] = "final"

\* The tracked identifiers other than the genesis pair whose canonical
\* transaction was sent by a node of the population label.
TrackedOf(label) ==
    {a \in DOMAIN transactionTracker \ {G1.Amount, G2.Amount} :
        transactionMap[a].Sender = <<label, transactionMap[a].Sender[2]>>}

\* The average tracker value over K, as the pair <<sum, count>>, is
\* strictly greater than the one over L; the average over no entry is 0.
AverageAbove(K, L) ==
    LET sk == SumOver(transactionTracker, K)
        sl == SumOver(transactionTracker, L)
    IN  /\ K # {}
        /\ IF L = {} THEN sk > 0
           ELSE sk * Cardinality(L) > sl * Cardinality(K)

C17_InvalidConfigRejected ==
    InvalidConfig(N, C) =>
        /\ dpc # "done"
        /\ aggOrder = <<>>
        /\ \A i \in NodeIds : npc[i] = "loop"

\* C18: no reported metric divides by zero: when a run is over, the overall
\* average of the tangle has tracked entries to divide by, and the
\* confirmation percentage has a non-zero divisor or is a defined zero.
C18_NoDivisionByZero ==
    dpc = "done" =>
        /\ variant = "dag" => Cardinality(DOMAIN transactionTracker) # 0
        /\ txSent # 0 \/ txConfirmedPercentage = [kind |-> "finite", value |-> 0]

\* C19: every artifact a node holds in its ledger, the genesis artifacts
\* included, has a fingerprint that begins with D characters "0".
C19_LedgerFingerprintsValid ==
    \A i \in NodeIds : \A h \in DOMAIN HashMap[i] :
        HasPrefix(HashMap[i][h].Hash, D)

\* The block with fingerprint h as its miner produced it: the fingerprint is
\* the digest of the previous-hash and the transactions it was mined from.
AsMined(h) == generateBlock(SubSeq(h, 1, Len(h) - 1), h[Len(h)])

\* C20: in the chain variant the copy of a block in any node's ledger is
\* equal in every field to the block as it was mined.
C20_BlocksImmutable ==
    variant = "chain" =>
        \A i \in NodeIds : \A h \in DOMAIN HashMap[i] :
            HashMap[i][h] = AsMined(h)

\* ------------------------------------------------- termination (fairness)
\* The steps of the driver and of the workers up to the lock.
BeforeAggregate ==
    \/ DriverRound
    \/ DriverCloseInbox
    \/ DriverBarrier
    \/ DriverCloseRecv
    \/ DriverWait
    \/ \E i \in NodeIds : NodeInbox(i)
    \/ \E i \in NodeIds : NodeInboxClosed(i)
    \/ \E i \in NodeIds : NodeRecv(i)
    \/ \E i \in NodeIds : NodeMineBlock(i)
    \/ \E i \in NodeIds : NodeMineTx(i)
    \/ \E i \in NodeIds : NodeBroadcast(i)
    \/ \E i \in NodeIds : NodeLock(i)

\* The worker that holds the mutex can run its critical section: the guard
\* of NodeAggregate, which is all that its being enabled asks for.
InCritical == Running /\ \E i \in NodeIds : npc[i] = "crit"

\* Every mining call terminates and the scheduler is fair: while the driver
\* or a worker can take a step, one of them eventually does, and a worker
\* inside its critical section eventually leaves it (weak fairness of
\* NodeAggregate, written with its guard).  A worker that polls with nothing
\* ready and an empty queue changes nothing: it stutters.
Fairness ==
    /\ WF_vars(BeforeAggregate)
    /\ ([]<>(~InCritical)) \/ ([]<><<\E i \in NodeIds : NodeAggregate(i)>>_vars)

\* The runs explored for termination: at most MaxLiveR rounds.
InitLive ==
    /\ Init
    /\ R <= MaxLiveR

SpecLive == InitLive /\ [][Next]_vars /\ Fairness

\* The entry point has returned: the driver is past its final wait.
Returned == dpc = "done"

\* C21: under fairness every run of a valid configuration returns, so that
\* no state short of the return is a deadlock (a run that stopped there
\* would be fair and would never return); and when it has returned all
\* rounds were submitted, every mailbox is closed, every node has received
\* what was sent to it and left its loop, both waits are over and every
\* node has contributed its terminal view exactly once.
C21_EventuallyReturns ==
    /\ <>Returned
    /\ [](Returned =>
             /\ round = R
             /\ blockWG = 0 /\ wg = 0
             /\ \A i \in NodeIds :
                   /\ inboxClosed[i] /\ npc[i] = "done"
                   /\ received[i] = due[i]
                   /\ Cardinality({k \in 1 .. Len(aggOrder) : aggOrder[k] = i}) = 1)

\* A chain run that sent transactions, mined and delivered a block has
\* returned.
C21_Witness ==
    /\ Returned /\ variant = "chain" /\ txSent >= 2
    /\ Len(aggOrder) = N
    /\ \E i \in NodeIds : recvFrom[i] # {} /\ MaxLength[i] >= 1

\* Node i runs one iteration of its broadcast loop in this step.
Offers(i) == npc[i] = "bcast" /\ offered'[i] # offered[i]

\* C22: in the chain variant a node in its broadcast loop can always take
\* its next iteration; the iteration enqueues the mined block at the
\* destination exactly when the destination's buffer holds fewer than N
\* blocks and otherwise leaves every buffer as it was, it never comes back
\* to a destination already attempted, and no buffer ever holds more than
\* N blocks.
C22_BroadcastNonBlocking ==
    /\ [](variant = "chain" =>
             \A i \in NodeIds :
                 /\ Len(receivers[i]) <= N
                 /\ (Running /\ npc[i] = "bcast") => ENABLED NodeBroadcast(i))
    /\ [][variant = "chain" =>
             \A i \in NodeIds :
                 Offers(i) =>
                     LET j == bj[i]
                     IN  /\ j \notin offered[i]
                         /\ offered'[i] = offered[i] \cup {j}
                         /\ npc'[i] = "loop" \/ (npc'[i] = "bcast" /\ bj'[i] > j)
                         /\ receivers' =
                                IF Len(receivers[j]) < N
                                THEN [receivers EXCEPT ![j] = Append(@, Mined(i))]
                                ELSE receivers]_vars

\* Node i has finished a broadcast in which its block was dropped at j: the
\* buffer of j is full and j neither holds the block nor has it queued.
C22_Witness ==
    \E i \in NodeIds : \E j \in NodeIds :
        /\ variant = "chain" /\ npc[i] = "loop" /\ j \in offered[i]
        /\ Len(receivers[j]) = N
        /\ Mined(i).Hash \notin DOMAIN HashMap[j]
        /\ \A k \in 1 .. Len(receivers[j]) : receivers[j][k] # Mined(i)

\* Node i takes the head of its receive buffer in this step.
Dequeues(i) ==
    /\ variant = "chain" /\ npc[i] = "loop" /\ receivers[i] # <<>>
    /\ receivers'[i] = Tail(receivers[i])

\* The ledger of node i holds a block other than b with the previous-hash
\* of b.
HasSibling(i, b) ==
    \E h \in DOMAIN HashMap[i] :
        h # b.Hash /\ HashMap[i][h].PrevHash = b.PrevHash

\* C23: when a chain node dequeues block B with a known previous-hash, B is
\* stored as it is with the length of its predecessor plus one, and the
\* best tip and length become B's exactly when that length is greater than
\* the best length: they do when B extends the best tip, they do not when
\* the ledger already holds another block extending the same predecessor.
\* With an unknown previous-hash B is stored with previous-hash genesis and
\* length 1, and becomes the best tip exactly when the node had none.
C23_ReceiveRule ==
    [][\A i \in NodeIds :
          Dequeues(i) =>
              LET B   == Head(receivers[i])
                  len == GetCount(Counts[i], B.PrevHash) + 1
              IN  IF B.PrevHash \in DOMAIN HashMap[i]
                  THEN /\ B.Hash \in DOMAIN HashMap'[i]
                       /\ HashMap'[i][B.Hash] = B
                       /\ Counts'[i][B.Hash] = Counts[i][B.PrevHash] + 1
                       /\ IF len > MaxLength[i]
                          THEN MaxChain'[i] = B.Hash /\ MaxLength'[i] = len
                          ELSE MaxChain'[i] = MaxChain[i]
                                   /\ MaxLength'[i] = MaxLength[i]
                       /\ B.PrevHash = MaxChain[i] => MaxChain'[i] = B.Hash
                       /\ HasSibling(i, B) => MaxChain'[i] = MaxChain[i]
                  ELSE /\ B.Hash \in DOMAIN HashMap'[i]
                       /\ HashMap'[i][B.Hash] = [B EXCEPT !.PrevHash = G.Hash]
                       /\ Counts'[i][B.Hash] = 1
                       /\ IF MaxChain[i] = <<>>
                          THEN MaxChain'[i] = B.Hash /\ MaxLength'[i] = 1
                          ELSE MaxChain'[i] = MaxChain[i]
                                   /\ MaxLength'[i] = MaxLength[i]]_vars

\* A node that was sent no transaction, so that it dequeued every block it
\* holds, has a grafted block and two blocks that extend it; the best tip
\* is one of the two.
C23_Witness ==
    \E i \in NodeIds :
        /\ variant = "chain" /\ round = R /\ due[i] = 0
        /\ \E h1 \in DOMAIN HashMap[i] : \E h2 \in DOMAIN HashMap[i] :
              /\ h1 # h2 /\ MaxChain[i] = h1
              /\ HashMap[i][h1].PrevHash = HashMap[i][h2].PrevHash
              /\ HashMap[i][h1].PrevHash \in DOMAIN HashMap[i]
              /\ HashMap[i][HashMap[i][h1].PrevHash].PrevHash = G.Hash

\* Node i changes its ledger without taking anything from its receive
\* buffer: it mines.
Mines(i) ==
    /\ variant = "chain" /\ npc[i] = "loop"
    /\ HashMap'[i] # HashMap[i] /\ receivers'[i] = receivers[i]

\* The peers the delivery policy lets node i offer to.
Peers(i) == {j \in NodeIds \ {i} : Honest(i) \/ Corrupt(j)}

\* C24: a chain node mines only with a non-empty queue; the step adds
\* exactly one block to its ledger, holding all the queued transactions on
\* top of the best tip; afterwards the queue is empty, the block is the
\* best tip and the best length is one more.  The broadcast that follows
\* offers that block, and when it ends every eligible peer was offered it.
C24_MiningRule ==
    [][\A i \in NodeIds :
          /\ Mines(i) =>
                LET h == MaxChain'[i]
                IN  /\ transactions[i] # <<>>
                    /\ h \notin DOMAIN HashMap[i]
                    /\ DOMAIN HashMap'[i] = DOMAIN HashMap[i] \cup {h}
                    /\ \A k \in DOMAIN HashMap[i] : HashMap'[i][k] = HashMap[i][k]
                    /\ HashMap'[i][h].Transactions = transactions[i]
                    /\ HashMap'[i][h].PrevHash = MaxChain[i]
                    /\ HashMap'[i][h].Hash = h
                    /\ transactions'[i] = <<>>
                    /\ MaxLength'[i] = MaxLength[i] + 1
                    /\ offered'[i] = {}
                    /\ npc'[i] = IF Peers(i) = {} THEN "loop" ELSE "bcast"
          /\ (variant = "chain" /\ Offers(i)) =>
                /\ MaxChain'[i] = MaxChain[i] /\ HashMap'[i] = HashMap[i]
                /\ \A j \in NodeIds :
                      receivers'[j] # receivers[j] =>
                          receivers'[j] =
                              Append(receivers[j], HashMap[i][MaxChain[i]])
                /\ npc'[i] = "loop" => offered'[i] = Peers(i)]_vars

\* A node has mined a block of two transactions on top of an earlier block
\* of its ledger and has finished offering it.
C24_Witness ==
    \E i \in NodeIds :
        /\ variant = "chain" /\ npc[i] = "loop" /\ transactions[i] = <<>>
        /\ MaxLength[i] >= 2 /\ offered[i] = Peers(i) /\ Peers(i) # {}
        /\ Len(HashMap[i][MaxChain[i]].Transactions) >= 2
        /\ HashMap[i][MaxChain[i]].PrevHash \in DOMAIN HashMap[i]
        /\ recvFrom[i] = {}

\* C25: the candidate chain of a chain node that has left its loop starts
\* with genesis and ends with the node's best tip (genesis when it has
\* none), every later block has as previous-hash the fingerprint of the
\* block just before it in the chain, and its length is the best length
\* plus one.
C25_FinalChainLinked ==
    \A i \in NodeIds :
        (variant = "chain" /\ PastLoop(i)) =>
            LET chain == Candidate(i)
            IN  /\ chain[1] = G
                /\ Len(chain) = MaxLength[i] + 1
                /\ chain[Len(chain)].Hash =
                       (IF MaxChain[i] = <<>> THEN G.Hash ELSE MaxChain[i])
                /\ \A k \in 2 .. Len(chain) :
                       chain[k].PrevHash = chain[k - 1].Hash

\* Tangle node i mines in this step: its node list grows and its receive
\* channel is left alone.
MinesTx(i) ==
    /\ variant = "dag" /\ npc[i] = "loop"
    /\ Len(Nodes'[i]) = Len(Nodes[i]) + 1 /\ receivers'[i] = receivers[i]

\* C26: the node list of a tangle node always holds at least two entries,
\* all with different fingerprints and all in its ledger, so that
\* pickParents has a pair to return; and every entry a node mines names
\* exactly two parents, different from each other and both in the miner's
\* ledger before the step.
C26_TwoDistinctKnownParents ==
    /\ [](variant = "dag" =>
             \A i \in NodeIds :
                 /\ Len(Nodes[i]) >= 2
                 /\ ParentChoices(Nodes[i]) # {}
                 /\ \A a \in 1 .. Len(Nodes[i]) :
                       /\ Nodes[i][a].Hash \in DOMAIN HashMap[i]
                       /\ \A b \in 1 .. Len(Nodes[i]) :
                             a # b => Nodes[i][a].Hash # Nodes[i][b].Hash)
    /\ [][\A i \in NodeIds :
             MinesTx(i) =>
                 LET t == Nodes'[i][Len(Nodes'[i])]
                 IN  /\ Len(t.Parents) = 2
                     /\ t.Parents[1] # t.Parents[2]
                     /\ t.Parents[1] \in DOMAIN HashMap[i]
                     /\ t.Parents[2] \in DOMAIN HashMap[i]
                     /\ HashMap'[i] = Put(HashMap[i], t.Hash, t)]_vars

\* A node has mined an entry one of whose parents is an entry it mined
\* before.
C26_Witness ==
    \E i \in NodeIds :
        /\ variant = "dag" /\ Len(Nodes[i]) >= 4
        /\ \E a \in 1 .. Len(Nodes[i]) : \E n \in 1 .. 2 :
              /\ Len(Nodes[i][a].Parents) = 2
              /\ Nodes[i][a].Parents[n] \notin {G1.Hash, G2.Hash}

\* The confidence node i computed for the transaction with identifier a.
NodeScore(i, a) ==
    LET conf == Confidence(HashMap[i])
    IN  SumOver(conf, {h \in DOMAIN conf : HashMap[i][h].Amount = a})

\* C27: when every tangle node has contributed, the tracker value of each
\* identifier is the sum over the nodes of the confidence the node computed
\* for it, and every tracked identifier has its canonical copy.
C27_TrackerSumsConfidence ==
    (variant = "dag" /\ dpc = "done") =>
        /\ DOMAIN transactionMap = DOMAIN transactionTracker
        /\ \A a \in DOMAIN transactionTracker :
              transactionTracker[a] =
                  SumOver([i \in NodeIds |-> NodeScore(i, a)], NodeIds)

\* C28: in both variants a node that has left its main loop holds no
\* unmined transaction.
C28_QueueEmptyOnExit ==
    \A i \in NodeIds : PastLoop(i) => transactions[i] = <<>>

\* C29: in SimulateDAG no receive channel ever holds an entry and no node
\* ever takes one from a peer: a node's ledger changes only in a step that
\* mines one of its queued transactions, and it holds the two genesis
\* entries and one entry for each transaction the node has mined.
C29_NothingDelivered ==
    /\ [](variant = "dag" =>
             \A i \in NodeIds :
                 /\ receivers[i] = <<>> /\ recvFrom[i] = {}
                 /\ {G1.Hash, G2.Hash} \subseteq DOMAIN HashMap[i]
                 /\ Len(Nodes[i]) = 2 + received[i] - Len(transactions[i])
                 /\ DOMAIN HashMap[i] =
                        {Nodes[i][k].Hash : k \in 1 .. Len(Nodes[i])})
    /\ [][variant = "dag" =>
             \A i \in NodeIds :
                 HashMap'[i] # HashMap[i] =>
                     /\ npc[i] = "loop"
                     /\ Len(transactions'[i]) = Len(transactions[i]) - 1]_vars

\* Node i has mined an entry and finished offering it to node j, which has
\* mined an entry of its own and does not hold the one of i.
C29_Witness ==
    \E i \in NodeIds : \E j \in NodeIds :
        /\ variant = "dag" /\ npc[i] = "loop" /\ j \in offered[i]
        /\ Len(Nodes[i]) >= 3 /\ Len(Nodes[j]) >= 3
        /\ Nodes[i][Len(Nodes[i])].Hash \notin DOMAIN HashMap[j]

\* C30: the driver of src/unnamed/part_002 never sends on nor closes
\* again a mailbox it has closed, and a mailbox is closed only in or after
\* the last of the R rounds, with every transaction addressed to its node
\* submitted.
C30_OldDriverClosesLast ==
    variant = "old" =>
        /\ panicked = ""
        /\ \A i \in NodeIds :
              inboxClosed[i] => (round >= R - 1 /\ received[i] = due[i])


\* C31: in SimulateDAG of src/dag.go no two workers are inside the loop over
\* transactionTracker and transactionMap at the same time.
C31_AggregationExclusive ==
    Cardinality({i \in NodeIds : npc[i] = "crit"}) <= 1

\* C32: in SimulateBlockchainBenchmark the driver never parks on a send
\* into a mailbox while it submits the transactions.
C32_SubmissionNeverBlocks == variant = "powbench" => dpc # "blocked"

=============================================================================
